---- MODULE Spec2Model ----
\* Model of src/app.py: the Streamlit page that turns an uploaded batch of
\* paragraphs into speech (ElevenLabs), uploads each audio file to S3 and keeps
\* the manifest of the last run in the session state.
\*
\* Strings whose characters the code inspects (dictionary keys, URLs, the CSV
\* text) are sequences of one-character strings; opaque strings (paragraph
\* text, voice and model identifiers) are TLA+ strings.  A Python dict is the
\* sequence of its <<key, value>> pairs in insertion order.  An optional value
\* is the empty sequence (None) or a one-element sequence.
EXTENDS Integers, Sequences, FiniteSets

\* ---------------------------------------------------------------- bounds
MaxParagraphs == 3
MaxRuns == 2
MaxCsvEntries == 3

\* the slide numbers and URLs the manifests given to generate_csv_links are
\* built from: one- and two-digit numbers, URLs with and without characters
\* that the CSV writer quotes
CsvIndices == {2, 3, 9, 10, 11}
CsvUrls == {<<"u">>, <<"a", ",", "b">>, <<"q", "\"">>}

\* ---------------------------------------------------------------- inputs
\* The texts a paragraph of an uploaded file may hold, and the batches of at
\* most MaxParagraphs paragraphs (the values of the uploaded JSON object, in
\* file order; the same text may occur twice).
Texts == {"Hello", "World"}

Batches == UNION {[1..K -> Texts] : K \in 0..MaxParagraphs}

\* ---------------------------------------------------------------- configuration
S3_PREFIX == <<"a", "/">>
CDN_BASE == <<"c", "d", "n", "/">>
AWS_BUCKET == "bucket"
voice_id == "voice"
model_id == "eleven_multilingual_v2"

\* ---------------------------------------------------------------- Python values
None == <<>>
Some(x) == <<x>>

Min(S) == CHOOSE x \in S : \A y \in S : x <= y

Digit == <<"0", "1", "2", "3", "4", "5", "6", "7", "8", "9">>

\* str(n) for n >= 0, as an f-string formats it
RECURSIVE IntToStr(_)
IntToStr(n) ==
    IF n < 10 THEN <<Digit[n + 1]>>
    ELSE IntToStr(n \div 10) \o <<Digit[(n % 10) + 1]>>

\* int(s) for a string of decimal digits
RECURSIVE StrToInt(_)
StrToInt(s) ==
    IF Len(s) = 0 THEN 0
    ELSE 10 * StrToInt(SubSeq(s, 1, Len(s) - 1))
         + (CHOOSE d \in 0..9 : Digit[d + 1] = s[Len(s)])

StartsWith(s, prefix) ==
    /\ Len(s) >= Len(prefix)
    /\ SubSeq(s, 1, Len(prefix)) = prefix

\* s.replace(old, new): every non-overlapping occurrence, left to right
RECURSIVE Replace(_, _, _)
Replace(s, old, new) ==
    IF s = <<>> THEN <<>>
    ELSE IF StartsWith(s, old)
         THEN new \o Replace(SubSeq(s, Len(old) + 1, Len(s)), old, new)
         ELSE <<Head(s)>> \o Replace(Tail(s), old, new)

\* s.rstrip(c)
RECURSIVE Rstrip(_, _)
Rstrip(s, c) ==
    IF s # <<>> /\ s[Len(s)] = c THEN Rstrip(SubSeq(s, 1, Len(s) - 1), c)
    ELSE s

DictKeys(d) == [i \in 1..Len(d) |-> d[i][1]]

DictHas(d, k) == \E i \in 1..Len(d) : d[i][1] = k

DictGet(d, k) == d[CHOOSE i \in 1..Len(d) : d[i][1] = k][2]

DictSetFresh(d, k, v) == <<<<k, v>>>>

\* d[k] = v: an existing key keeps its place, a new key goes last
DictSet(d, k, v) ==
    IF DictHas(d, k)
    THEN [i \in 1..Len(d) |-> IF d[i][1] = k THEN <<k, v>> ELSE d[i]]
    ELSE Append(d, <<k, v>>)

\* ---------------------------------------------------------------- names the code formats
SLIDE == <<"s", "l", "i", "d", "e">>
AUDIO_URL == <<"a", "u", "d", "i", "o", "_", "u", "r", "l">>
PARAGRAPH1 == <<"p", "a", "r", "a", "g", "r", "a", "p", "h", "1">>
VOICE_ID == <<"v", "o", "i", "c", "e", "_", "i", "d">>
MODEL_ID == <<"m", "o", "d", "e", "l", "_", "i", "d">>

FirstIndex == 2

slide_key(i) == SLIDE \o IntToStr(i)
paragraph_key(i) == <<"s">> \o IntToStr(i) \o PARAGRAPH1
audio_key(i) == AUDIO_URL \o IntToStr(i)

\* "tts_<uuid4 hex>.mp3"; u stands for the random identifier
filename(u) == <<"t", "t", "s", "_">> \o IntToStr(u) \o <<".", "m", "p", "3">>
local_path(u) == <<"t", "e", "m", "p", "/">> \o filename(u)
s3_key(u) == Rstrip(S3_PREFIX, "/") \o <<"/">> \o filename(u)
cdn_url(u) == Rstrip(CDN_BASE, "/") \o <<"/">> \o s3_key(u)

\* the entry stored under result[slide_key]
SlideData(i, t, url) ==
    << <<paragraph_key(i), t>>,
       <<audio_key(i), url>>,
       <<VOICE_ID, voice_id>>,
       <<MODEL_ID, model_id>> >>

IndexAfterSuccessStuck(i) == i

\* index += 1
IndexAfterSuccess(i) == i + 1

\* response.content of a successful synthesis of text
Speech(text) == <<"mp3", text>>

\* ---------------------------------------------------------------- CSV generation
LINK == <<"L", "i", "n", "k">>
CRLF == <<"\r", "\n">>

\* characters that make csv.writer quote a field (excel dialect, QUOTE_MINIMAL)
CsvSpecial == {",", "\"", "\r", "\n"}

RECURSIVE DoubleQuotes(_)
DoubleQuotes(s) ==
    IF s = <<>> THEN <<>>
    ELSE (IF Head(s) = "\"" THEN <<"\"", "\"">> ELSE <<Head(s)>>)
         \o DoubleQuotes(Tail(s))

\* writer.writerow([value]): the text of a one-field row
writerow(value) ==
    (IF value = <<>> \/ \E i \in 1..Len(value) : value[i] \in CsvSpecial
     THEN <<"\"">> \o DoubleQuotes(value) \o <<"\"">>
     ELSE value) \o CRLF

\* key=lambda x: int(x.replace("slide", ""))
SlideSortKey(x) == StrToInt(Replace(x, SLIDE, <<>>))

SortKeysUnsorted(keys) == keys

\* sorted(keys, key=SlideSortKey): stable, ascending
RECURSIVE SortKeys(_)
SortKeys(keys) ==
    IF keys = <<>> THEN <<>>
    ELSE LET rest == SortKeys(SubSeq(keys, 1, Len(keys) - 1))
             x == keys[Len(keys)]
             n == Cardinality({i \in 1..Len(rest) :
                                  SlideSortKey(rest[i]) <= SlideSortKey(x)})
         IN SubSeq(rest, 1, n) \o <<x>> \o SubSeq(rest, n + 1, Len(rest))

\* the inner loop: the row of the first key that starts with "audio_url"
EntryRow(slide_data) ==
    LET hits == {i \in 1..Len(slide_data) : StartsWith(slide_data[i][1], AUDIO_URL)}
    IN IF hits = {} THEN <<>> ELSE writerow(slide_data[Min(hits)][2])

RECURSIVE WriteRows(_, _)
WriteRows(output, keys) ==
    IF keys = <<>> THEN <<>>
    ELSE EntryRow(DictGet(output, Head(keys))) \o WriteRows(output, Tail(keys))

generate_csv_links(output) ==
    writerow(LINK) \o WriteRows(output, SortKeys(DictKeys(output)))

\* ---------------------------------------------------------------- state
VARIABLES
    paragraphs,     \* the uploaded batch: the texts, in file order
    tts_output,     \* st.session_state.tts_output: None or Some(manifest)
    tts_timestamp,  \* st.session_state.tts_timestamp: None or Some(time)
    pc,             \* "idle", "loop" (inside synthesize_and_upload),
                    \* "returned" or "raised" (how the call ended)
    result,         \* synthesize_and_upload: the manifest built so far
    index,          \* synthesize_and_upload: the slide counter
    pos,            \* number of paragraphs the for loop has taken
    disk,           \* files present under temp/: path -> content, as pairs
    uuids,          \* number of identifiers uuid4 has handed out
    posts,          \* requests.post calls of this run, in order
    staged,         \* files this run wrote under temp/, in order
    uploads,        \* s3.upload_file calls of this run, in order
    page,           \* what the page shows: messages and the download area
    runLog          \* how each finished run ended, oldest first

vars == <<paragraphs, tts_output, tts_timestamp, pc, result, index, pos, disk,
          uuids, posts, staged, uploads, page, runLog>>

session == <<tts_output, tts_timestamp>>
call == <<result, index, pos, posts, staged, uploads>>

Msg(kind, level, n) == [kind |-> kind, level |-> level, n |-> n]

Truthy(opt) == opt # None /\ opt[1] # <<>>

\* datetime.now(): the time of the current run
Now == Len(runLog) + 1

\* lines 195-218: the download area, shown when the session holds a manifest
Downloads(out, ts) ==
    IF Truthy(out) /\ ts # None
    THEN Some([timestamp |-> ts[1], csv_data |-> generate_csv_links(out[1])])
    ELSE None

Init ==
    /\ paragraphs \in Batches
    /\ tts_output = None
    /\ tts_timestamp = None
    /\ pc = "idle"
    /\ result = <<>>
    /\ index = FirstIndex
    /\ pos = 0
    /\ disk = {}
    /\ uuids = 0
    /\ posts = <<>>
    /\ staged = <<>>
    /\ uploads = <<>>
    /\ page = [messages |-> <<Msg("loaded", "success", Len(paragraphs))>>,
               download |-> None]
    /\ runLog = <<>>

\* ---------------------------------------------------------------- the page
Loaded == Msg("loaded", "success", Len(paragraphs))

\* A script run in which the button was not clicked: the file is loaded again
\* and the download area is drawn from the session state.
Rerun ==
    /\ pc = "idle"
    /\ page' = [messages |-> <<Loaded>>,
                download |-> Downloads(tts_output, tts_timestamp)]
    /\ UNCHANGED <<paragraphs, session, pc, call, disk, uuids, runLog>>

\* The button is clicked: the script enters synthesize_and_upload, which
\* starts with an empty manifest and index 2.
ClickGenerate ==
    /\ pc = "idle"
    /\ Len(runLog) < MaxRuns
    /\ pc' = "loop"
    /\ result' = <<>>
    /\ index' = FirstIndex
    /\ pos' = 0
    /\ posts' = <<>>
    /\ staged' = <<>>
    /\ uploads' = <<>>
    /\ page' = [messages |-> <<Loaded>>, download |-> None]
    /\ UNCHANGED <<paragraphs, session, disk, uuids, runLog>>

\* ---------------------------------------------------------------- synthesize_and_upload
InLoop == pc = "loop" /\ pos < Len(paragraphs)

text == paragraphs[pos + 1]

Post(outcome) == [pos |-> pos + 1, text |-> text, outcome |-> outcome]

Show(msgs) == page' = [page EXCEPT !.messages = page.messages \o msgs]

\* An iteration whose request raises; the handler reports it under the
\* current index and takes the next paragraph.
SynthFailed(outcome, kinds) ==
    /\ InLoop
    /\ posts' = Append(posts, Post(outcome))
    /\ Show(<<Msg("processing", "info", index)>>
            \o [i \in 1..Len(kinds) |-> Msg(kinds[i], "error", index)])
    /\ pos' = pos + 1
    /\ UNCHANGED <<paragraphs, session, pc, result, index, disk, uuids, staged,
                   uploads, runLog>>

\* the except clause left out: the exception leaves the function
SynthFailedPropagates(outcome, kinds) ==
    /\ InLoop
    /\ posts' = Append(posts, Post(outcome))
    /\ Show(<<Msg("processing", "info", index)>>)
    /\ pos' = pos + 1
    /\ pc' = "raised"
    /\ UNCHANGED <<paragraphs, session, result, index, disk, uuids, staged,
                   uploads, runLog>>

\* raise_for_status raises HTTPError (a non-2xx response)
SynthHTTPErrorPropagates == SynthFailedPropagates("http_error", <<>>)

SynthHTTPError == SynthFailed("http_error", <<"http_error", "error_details">>)

\* the request was staged and uploaded although it raised
SynthRequestExceptionNoContinue ==
    /\ InLoop
    /\ posts' = Append(posts, Post("request_exception"))
    /\ Show(<<Msg("processing", "info", index), Msg("tts_error", "error", index)>>)
    /\ staged' = Append(staged, [pos |-> pos + 1, path |-> local_path(uuids),
                                 content |-> <<>>])
    /\ uploads' = Append(uploads, [pos |-> pos + 1, path |-> local_path(uuids),
                                   bucket |-> AWS_BUCKET, key |-> s3_key(uuids),
                                   content |-> <<>>, outcome |-> "ok"])
    /\ result' = DictSet(result, slide_key(index), SlideData(index, text, cdn_url(uuids)))
    /\ index' = IndexAfterSuccess(index)
    /\ uuids' = uuids + 1
    /\ pos' = pos + 1
    /\ UNCHANGED <<paragraphs, session, pc, disk, runLog>>

\* requests.post raises another RequestException (transport error, timeout)
SynthRequestException == SynthFailed("request_exception", <<"tts_error">>)

\* The request succeeds, the audio is written under temp/ and uploaded; the
\* entry is stored under the current index, the index advances and the file
\* is removed.
UploadOk ==
    /\ InLoop
    /\ posts' = Append(posts, Post("ok"))
    /\ Show(<<Msg("processing", "info", index)>>)
    /\ LET path == local_path(uuids)
           file == <<path, Speech(text)>>
           written == {f \in disk : f[1] # path} \cup {file}
       IN /\ staged' = Append(staged, [pos |-> pos + 1, path |-> path,
                                       content |-> Speech(text)])
          /\ uploads' = Append(uploads, [pos |-> pos + 1, path |-> path,
                                         bucket |-> AWS_BUCKET,
                                         key |-> s3_key(uuids),
                                         content |-> file[2], outcome |-> "ok"])
          /\ disk' = {f \in written : f[1] # path}
    /\ result' = DictSet(result, slide_key(index), SlideData(index, text, cdn_url(uuids)))
    /\ index' = IndexAfterSuccess(index)
    /\ uuids' = uuids + 1
    /\ pos' = pos + 1
    /\ UNCHANGED <<paragraphs, session, pc, runLog>>

\* The request succeeds and the audio is written under temp/, but
\* s3.upload_file raises: nothing in the function catches it.
UploadFails ==
    /\ InLoop
    /\ posts' = Append(posts, Post("ok"))
    /\ Show(<<Msg("processing", "info", index)>>)
    /\ LET path == local_path(uuids)
           file == <<path, Speech(text)>>
       IN /\ staged' = Append(staged, [pos |-> pos + 1, path |-> path,
                                       content |-> Speech(text)])
          /\ uploads' = Append(uploads, [pos |-> pos + 1, path |-> path,
                                         bucket |-> AWS_BUCKET,
                                         key |-> s3_key(uuids),
                                         content |-> file[2], outcome |-> "failed"])
          /\ disk' = {f \in disk : f[1] # path} \cup {file}
    /\ uuids' = uuids + 1
    /\ pos' = pos + 1
    /\ pc' = "raised"
    /\ UNCHANGED <<paragraphs, session, result, index, runLog>>

\* the loop is over: return result
ReturnResult ==
    /\ pc = "loop"
    /\ pos = Len(paragraphs)
    /\ pc' = "returned"
    /\ UNCHANGED <<paragraphs, session, call, disk, uuids, page, runLog>>

\* ---------------------------------------------------------------- main block
\* lines 179-187 and the download area: a non-empty manifest is stored in the
\* session, an empty one clears it
MainOnReturn ==
    /\ pc = "returned"
    /\ IF result # <<>>
       THEN /\ tts_output' = Some(result)
            /\ tts_timestamp' = Some(Now)
            /\ page' = [messages |-> Append(page.messages,
                                            Msg("done", "success", Len(result))),
                        download |-> Downloads(tts_output', tts_timestamp')]
            /\ runLog' = Append(runLog, "done")
       ELSE /\ tts_output' = None
            /\ tts_timestamp' = None
            /\ page' = [messages |-> Append(page.messages,
                                            Msg("no_audio", "error", 0)),
                        download |-> Downloads(tts_output', tts_timestamp')]
            /\ runLog' = Append(runLog, "no_audio")
    /\ pc' = "idle"
    /\ UNCHANGED <<paragraphs, call, disk, uuids>>

\* the handler reports the error but leaves the session as it was
MainOnExceptionKeepsSession ==
    /\ pc = "raised"
    /\ page' = [messages |-> page.messages
                             \o <<Msg("exception", "error", 0),
                                  Msg("traceback", "code", 0)>>,
                download |-> Downloads(tts_output, tts_timestamp)]
    /\ runLog' = Append(runLog, "exception")
    /\ pc' = "idle"
    /\ UNCHANGED <<paragraphs, session, call, disk, uuids>>

\* lines 188-193 and the download area: any exception of the call is
\* reported with its traceback and the session is cleared
MainOnException ==
    /\ pc = "raised"
    /\ tts_output' = None
    /\ tts_timestamp' = None
    /\ page' = [messages |-> page.messages
                             \o <<Msg("exception", "error", 0),
                                  Msg("traceback", "code", 0)>>,
                download |-> Downloads(tts_output', tts_timestamp')]
    /\ runLog' = Append(runLog, "exception")
    /\ pc' = "idle"
    /\ UNCHANGED <<paragraphs, call, disk, uuids>>

Next ==
    \/ Rerun
    \/ ClickGenerate
    \/ SynthHTTPError
    \/ SynthRequestException
    \/ UploadOk
    \/ UploadFails
    \/ ReturnResult
    \/ MainOnReturn
    \/ MainOnException

Spec == Init /\ [][Next]_vars

\* ---------------------------------------------------------------- generate_csv_links alone
\* The session holds any manifest of at most MaxCsvEntries entries, its keys
\* in any insertion order, and the page is drawn.
CsvManifests ==
    UNION {
        {[i \in 1..K |-> <<slide_key(ns[i]), SlideData(ns[i], "Hello", us[i])>>] :
            ns \in {f \in [1..K -> CsvIndices] :
                       \A i, j \in 1..K : i # j => f[i] # f[j]},
            us \in [1..K -> CsvUrls]} :
        K \in 0..MaxCsvEntries}

InitCsv ==
    /\ paragraphs = <<>>
    /\ tts_output \in {Some(m) : m \in CsvManifests}
    /\ tts_timestamp = Some(1)
    /\ pc = "idle"
    /\ result = <<>>
    /\ index = FirstIndex
    /\ pos = 0
    /\ disk = {}
    /\ uuids = 0
    /\ posts = <<>>
    /\ staged = <<>>
    /\ uploads = <<>>
    /\ page = [messages |-> <<>>, download |-> None]
    /\ runLog = <<>>

SpecCsv == InitCsv /\ [][Rerun]_vars

\* ---------------------------------------------------------------- properties
Last(q) == q[Len(q)]

EndsWith(s, suffix) ==
    /\ Len(s) >= Len(suffix)
    /\ SubSeq(s, Len(s) - Len(suffix) + 1, Len(s)) = suffix

\* the "Processing: slide<index>" lines of the current run, in order
Processing == SelectSeq(page.messages, LAMBDA m : m.kind = "processing")

OutcomeOf(p) == posts[CHOOSE i \in 1..Len(posts) : posts[i].pos = p].outcome

UploadedOk(p) ==
    \E j \in 1..Len(uploads) : uploads[j].pos = p /\ uploads[j].outcome = "ok"

\* paragraphs of the current run whose synthesis and upload both succeeded
Succeeded == {p \in 1..Len(posts) : OutcomeOf(p) = "ok" /\ UploadedOk(p)}

EntryText(e) == e[2][1][2]
EntryUrl(e) == e[2][2][2]

\* C1: the k-th paragraph is processed under index k+1 whether or not the
\* earlier paragraphs succeeded, and a batch of three whose second paragraph
\* fails synthesis returns exactly the keys slide2 and slide4.
C1_OneIndexPerParagraph ==
    /\ \A k \in 1..Len(Processing) : Processing[k].n = k + 1
    /\ (/\ pc = "returned"
        /\ Len(posts) = 3
        /\ posts[1].outcome = "ok"
        /\ posts[2].outcome # "ok"
        /\ posts[3].outcome = "ok")
       => DictKeys(result) = <<slide_key(2), slide_key(4)>>

\* C2: an upload failure is fatal for its paragraph only: it never leaves
\* synthesize_and_upload as an exception.
C2_UploadFailureContained ==
    (\E j \in 1..Len(uploads) : uploads[j].outcome = "failed") => pc # "raised"

\* C3: every paragraph the loop has taken got exactly one synthesis call, in
\* input order; a call that returns has made one call per paragraph; the call
\* ends with an exception only when an upload failed.
C3_OneSynthesisCallEach ==
    /\ Len(posts) = pos
    /\ \A i \in 1..Len(posts) : posts[i].pos = i /\ posts[i].text = paragraphs[i]
    /\ pc = "returned" => Len(posts) = Len(paragraphs)
    /\ pc = "raised" => \E j \in 1..Len(uploads) : uploads[j].outcome = "failed"

C3_Witness ==
    /\ pc = "returned"
    /\ Len(paragraphs) = 3
    /\ posts[1].outcome = "http_error"
    /\ posts[2].outcome = "request_exception"
    /\ posts[3].outcome = "ok"

\* C4: when synthesize_and_upload has ended, by returning or by raising, no
\* file it staged under temp/ is left on disk.
C4_StagedFilesDeleted ==
    pc \in {"returned", "raised"}
    => \A i \in 1..Len(staged) : \A f \in disk : f[1] # staged[i].path

\* C5: a paragraph whose synthesis failed has no staged file and no upload,
\* and every upload carries the bytes of the successful response for its own
\* paragraph.
C5_NoUploadAfterFailedSynthesis ==
    /\ \A i \in 1..Len(posts) :
          posts[i].outcome # "ok"
          => /\ \A j \in 1..Len(staged) : staged[j].pos # posts[i].pos
             /\ \A j \in 1..Len(uploads) : uploads[j].pos # posts[i].pos
    /\ \A j \in 1..Len(uploads) :
          \E i \in 1..Len(posts) :
             /\ posts[i].pos = uploads[j].pos
             /\ posts[i].outcome = "ok"
             /\ uploads[j].content = Speech(posts[i].text)

C5_Witness ==
    /\ Len(posts) = 3
    /\ posts[1].outcome = "ok"
    /\ posts[2].outcome = "request_exception"
    /\ posts[3].outcome = "ok"
    /\ Len(uploads) = 2

\* C6: the returned manifest has exactly one entry for each paragraph whose
\* synthesis and upload succeeded (its text, and the URL of its upload) and
\* no other entry, so at most one per paragraph; an empty batch returns an
\* empty manifest and never raises.
C6_ManifestMatchesSuccesses ==
    /\ pc = "returned"
       => /\ Len(result) = Cardinality(Succeeded)
          /\ Len(result) <= Len(paragraphs)
          /\ \A p \in Succeeded :
                LET up == uploads[CHOOSE j \in 1..Len(uploads) : uploads[j].pos = p]
                    hits == {i \in 1..Len(result) :
                                /\ EntryText(result[i]) = paragraphs[p]
                                /\ EndsWith(EntryUrl(result[i]), up.key)}
                IN Cardinality(hits) = 1
          /\ paragraphs = <<>> => result = <<>>
    /\ paragraphs = <<>> => pc # "raised"

C6_Witness ==
    /\ pc = "returned"
    /\ Len(paragraphs) = 3
    /\ Succeeded = {1, 3}
    /\ paragraphs[1] = paragraphs[3]

\* C8: after a run that ended with an exception the session holds no
\* manifest and the page offers no download, until a later run ends.
C8_ExceptionClearsSession ==
    (runLog # <<>> /\ Last(runLog) = "exception")
    => /\ tts_output = None
       /\ tts_timestamp = None
       /\ page.download = None

C8_Witness ==
    /\ runLog = <<"done", "exception">>
    /\ pc = "idle"
    /\ tts_output = None

\* C9: a run over an empty batch is not reported as an error, and so is told
\* apart from a run whose paragraphs all failed.
C9_EmptyBatchNotAnError ==
    (paragraphs = <<>> /\ pc = "idle")
    => \A i \in 1..Len(page.messages) : page.messages[i].level # "error"

\* C10: with M the number of paragraphs that have succeeded so far, index is
\* M+2 and the manifest's keys are slide2 .. slide(M+1) in that order, the
\* i-th entry being the one of the i-th successful paragraph (no entry was
\* overwritten).
C10_KeysContiguous ==
    LET ok == SelectSeq(uploads, LAMBDA u : u.outcome = "ok")
        M == Len(ok)
    IN /\ index = M + 2
       /\ DictKeys(result) = [i \in 1..M |-> slide_key(i + 1)]
       /\ \A i \in 1..M :
             /\ EntryText(result[i]) = paragraphs[ok[i].pos]
             /\ EndsWith(EntryUrl(result[i]), ok[i].key)
       /\ \A i, j \in 1..M : i < j => ok[i].pos < ok[j].pos

C10_Witness ==
    /\ pc = "loop"
    /\ Len(posts) = 3
    /\ posts[1].outcome = "http_error"
    /\ Len(result) = 2

\* ---------------------------------------------------------------- reading the CSV back
\* The one-field rows of a CSV text: a quoted field ends at a quote that is
\* not doubled, a row ends at CRLF outside quotes.
RECURSIVE ParseCsv(_, _, _, _)
ParseCsv(s, field, quoted, rows) ==
    IF s = <<>> THEN rows
    ELSE IF quoted
         THEN IF Head(s) = "\""
              THEN IF Len(s) >= 2 /\ s[2] = "\""
                   THEN ParseCsv(SubSeq(s, 3, Len(s)), Append(field, "\""), TRUE, rows)
                   ELSE ParseCsv(Tail(s), field, FALSE, rows)
              ELSE ParseCsv(Tail(s), Append(field, Head(s)), TRUE, rows)
         ELSE IF Head(s) = "\""
              THEN ParseCsv(Tail(s), field, TRUE, rows)
              ELSE IF StartsWith(s, CRLF)
                   THEN ParseCsv(SubSeq(s, 3, Len(s)), <<>>, FALSE, Append(rows, field))
                   ELSE ParseCsv(Tail(s), Append(field, Head(s)), FALSE, rows)

\* the number N of a key "slide<N>"
KeyIndex(key) == CHOOSE n \in 0..99 : SLIDE \o IntToStr(n) = key

\* C7: the CSV offered for download is the header row "Link" followed by one
\* row per manifest entry holding that entry's audio URL, the rows in
\* ascending numeric order of the slide index.
C7_CsvRowsAscending ==
    page.download # None
    => LET m == tts_output[1]
           rows == ParseCsv(page.download[1].csv_data, <<>>, FALSE, <<>>)
       IN /\ Len(rows) = Len(m) + 1
          /\ rows[1] = LINK
          /\ \A i \in 1..Len(m) :
                LET smaller == {j \in 1..Len(m) :
                                   KeyIndex(m[j][1]) < KeyIndex(m[i][1])}
                IN rows[Cardinality(smaller) + 2] = EntryUrl(m[i])

C7_Witness ==
    /\ page.download # None
    /\ DictKeys(tts_output[1]) = <<slide_key(2), slide_key(10), slide_key(9)>>
    /\ EntryUrl(tts_output[1][2]) = <<"a", ",", "b">>
====
